---------------------------- MODULE Spec2Model ----------------------------
(***************************************************************************)
(* MAX30101 acquisition pipeline of MiB-NIRS-MuscleOxigenation:            *)
(* the sensor driver (MAX30101.c), its two callers in main.c (main and     *)
(* SysTick_Handler), the I2C primitives they are built on, and the sensor  *)
(* itself as the environment on the other side of the bus.                 *)
(***************************************************************************)
EXTENDS Integers, Sequences, FiniteSets, TLC

(***************************************************************************)
(* Register map and program constants (MAX30101.h).                        *)
(***************************************************************************)
FIFO_WRITPTR == 4
FIFO_READPTR == 6
FIFO_DATAREG == 7
FIFO_CONFIG == 8
MODE_CONFIG == 9
SPO2_CONFIG == 10
LED1_PAMPLI == 12
LED2_PAMPLI == 13
LED3_PAMPLI == 14
DIE_TEMPCFG == 33

\* Registers the two configuration sequences write that are plain storage.
ConfigRegs == {FIFO_CONFIG, MODE_CONFIG, SPO2_CONFIG, LED1_PAMPLI,
               LED2_PAMPLI, LED3_PAMPLI, DIE_TEMPCFG}

\* MODE_CONFIG values written by the two profiles.
MODE_SPO2 == 3
MODE_MULTILED == 7

\* Depth of the on-chip FIFO ("32-sample FIFO with wrap-around support").
FIFO_DEPTH == 32

\* uint8_t: the width of every pointer, counter and bus byte of the driver.
UINT8_MAX == 255

\* Capacity of the three global sample buffers of main.c.
BUFFER_CAPACITY == 8

\* The drive code main passes to MAX30101_InitMuscleOx.
MAIN_LED_POWER == 75

(***************************************************************************)
(* Bounds of the model.                                                    *)
(***************************************************************************)
\* Samples the sensor appends in a run of the whole program.
MaxSamples == 10
\* Trigger periods in a run of the whole program.
MaxTicks == 2
\* Iterations of main's idle loop.
MaxCounter == 1
\* Bus faults the environment injects in a run with a faulty bus.
MaxFaults == 1
\* Samples the sensor appends in a run with a faulty bus / a foreground reader.
FaultSamples == 2
RaceSamples == 3
\* Trigger periods in a run with a foreground reader.
RaceTicks == 2
\* Driver-level runs: calls made by the client, samples appended, largest
\* sample count requested from a FIFO reader.
MaxCalls == 3
FaultCalls == 2
DriverSamples == 2
MaxReq == 2
\* Runs in which the sensor appends whole batches of samples between two
\* trigger periods: samples appended in the run, trigger periods.
FilledSamples == 34
FilledTicks == 2
\* Runs of several trigger periods in which the sensor's pointers wrap:
\* samples appended in the run, trigger periods.
StreamSamples == 34
StreamTicks == 5

(***************************************************************************)
(* Byte patterns the sensor puts in its FIFO, one 6-byte sample each       *)
(* (red hi, red lo, ir hi, ir lo, green hi, green lo).                     *)
(***************************************************************************)
Patterns ==
    << <<18, 52, 86, 120, 154, 188>>,
       <<255, 255, 0, 0, 128, 1>>,
       <<0, 1, 1, 0, 254, 220>> >>

(***************************************************************************)
(* Pure arithmetic of the driver.                                          *)
(***************************************************************************)
RECURSIVE Pow2(_)
Pow2(n) == IF n = 0 THEN 1 ELSE 2 * Pow2(n - 1)

RECURSIVE BitLen(_)
BitLen(x) == IF x = 0 THEN 0 ELSE 1 + BitLen(x \div 2)

\* x & 0x1F on a uint8_t.
Mask5(x) == x % 32

\* NumAvailable without its else branch: the uint8_t difference alone.
NumAvailableMissingWrap(w, r) == (Mask5(w) - Mask5(r)) % (UINT8_MAX + 1)

\* NumAvailable counting the slot under the write pointer as well.
NumAvailableInclusive(w, r) ==
    IF Mask5(w) >= Mask5(r)
    THEN (Mask5(w) - Mask5(r) + 1) % (UINT8_MAX + 1)
    ELSE ((FIFO_DEPTH - Mask5(r)) + Mask5(w) + 1) % (UINT8_MAX + 1)

\* NumAvailable comparing with > instead of >=: equal pointers count as a
\* full FIFO.
NumAvailableEqualIsFull(w, r) ==
    IF Mask5(w) > Mask5(r) THEN (Mask5(w) - Mask5(r)) % (UINT8_MAX + 1)
    ELSE ((FIFO_DEPTH - Mask5(r)) + Mask5(w)) % (UINT8_MAX + 1)

\* The availability computation of MAX30101_GetNumAvailableSamples, on the
\* two bytes the bus delivered; the result is a uint8_t.
NumAvailable(w, r) ==
    IF Mask5(w) >= Mask5(r)
    THEN (Mask5(w) - Mask5(r)) % (UINT8_MAX + 1)
    ELSE ((FIFO_DEPTH - Mask5(r)) + Mask5(w)) % (UINT8_MAX + 1)

\* Combine16 with the shifted byte kept in 8 bits: the high byte is lost.
Combine16Narrow(hi, lo) == ((hi * 256) % (UINT8_MAX + 1)) + lo

\* ((uint16_t)hi << 8) | lo, stored in a uint16_t.  The two operands of | have
\* no bit in common, so | is +.
Combine16(hi, lo) == ((hi * 256) % 65536) + lo

\* MAX30101_CURRENT_LSB_NA = 7.81f / 1000.0f as an IEEE-754 binary32:
\* 0x3BFFEB07 = LSB_MANT * 2^LSB_EXP2, the 24-bit significand split in two
\* 12-bit halves so that every product stays below 2^31.
LSB_MANT_HI == 4094
LSB_MANT_LO == 2823
LSB_EXP2 == -31

\* (float32_t)count * MAX30101_CURRENT_LSB_NA: one binary32 multiply, round to
\* nearest even, as the bit pattern of the binary32 result.  count is exact in
\* binary32, the product count * LSB_MANT = a * 4096 + b has up to 40 bits and
\* is rounded to 24.
Float32TimesLsb(count) ==
    IF count = 0 THEN 0
    ELSE
      LET lo == count * LSB_MANT_LO
          a == count * LSB_MANT_HI + (lo \div 4096)
          b == lo % 4096
          s == BitLen(a) + 12 - 24
          q0 == IF s >= 12 THEN a \div Pow2(s - 12)
                ELSE a * Pow2(12 - s) + (b \div Pow2(s))
          r0 == IF s >= 12 THEN (a % Pow2(s - 12)) * 4096 + b
                ELSE b % Pow2(s)
          up == /\ s > 0
                /\ \/ r0 > Pow2(s - 1)
                   \/ r0 = Pow2(s - 1) /\ q0 % 2 = 1
          q1 == IF up THEN q0 + 1 ELSE q0
          q == IF q1 = 16777216 THEN 8388608 ELSE q1
          e == IF q1 = 16777216 THEN LSB_EXP2 + s + 1 ELSE LSB_EXP2 + s
      IN (e + 23 + 127) * 8388608 + (q - 8388608)

\* ConvertSampleToUint16 taking each channel's bytes low byte first.
ConvertSampleToUint16Swapped(raw) ==
    [red |-> Combine16(raw[2], raw[1]),
     ir |-> Combine16(raw[4], raw[3]),
     green |-> Combine16(raw[6], raw[5])]

\* MAX30101_ConvertSampleToUint16: raw sample (6 bytes) -> three counts.
ConvertSampleToUint16(raw) ==
    [red |-> Combine16(raw[1], raw[2]),
     ir |-> Combine16(raw[3], raw[4]),
     green |-> Combine16(raw[5], raw[6])]

\* MAX30101_ConvertUint16ToCurrent: three counts -> three binary32 currents.
ConvertUint16ToCurrent(cnt) ==
    [red |-> Float32TimesLsb(cnt.red),
     ir |-> Float32TimesLsb(cnt.ir),
     green |-> Float32TimesLsb(cnt.green)]

\* FusedConvert storing the first byte pair as IR and the second as red.
FusedConvertChannelsSwapped(d) ==
    [red |-> Float32TimesLsb(Combine16(d[3], d[4])),
     ir |-> Float32TimesLsb(Combine16(d[1], d[2])),
     green |-> Float32TimesLsb(Combine16(d[5], d[6]))]

\* The body of the loop of MAX30101_ReadFIFO_Current after the bus read:
\* fifo_data -> samples[i].
FusedConvert(d) ==
    [red |-> Float32TimesLsb(Combine16(d[1], d[2])),
     ir |-> Float32TimesLsb(Combine16(d[3], d[4])),
     green |-> Float32TimesLsb(Combine16(d[5], d[6]))]

\* The body of the loop of MAX30101_ReadFIFO after the bus read:
\* fifo_data -> samples[i] (red[0..1], ir[0..1], green[0..1]).
RawStore(d) == <<d[1], d[2], d[3], d[4], d[5], d[6]>>


(***************************************************************************)
(* State.                                                                  *)
(***************************************************************************)
VARIABLES
    \* main(): position, the idle-loop counter, whether SysTick is running.
    mainPc, counter, systickOn,
    \* SysTick_Handler: position, tick counter, its local, the LED pin.
    isrPc, ticks, available_samples, led,
    \* A client that calls the driver's functions directly: position, calls.
    testPc, calls,
    \* The driver function being executed: which one, where in it (0: it has
    \* returned), its parameters and locals.  num_samples is the local of
    \* MAX30101_GetNumAvailableSamples that it returns; req_samples is the
    \* num_samples parameter of the two FIFO readers; fifo_data is <<>>
    \* while the local array has not been written.
    fn, fnPc, ledPower, write_ptr, read_ptr, num_samples,
    req_samples, i, fifo_data,
    \* The global buffers of main.c, indexed from 0, and the indexes at or
    \* beyond their capacity that a reader has written (memory that lies
    \* behind the array).
    MAX30101_FIFO_Buffer, MAX30101_SampleDataBuffer,
    MAX30101_SampleCurrentBuffer, overrun,
    \* The sensor: configuration registers, FIFO pointers, byte offset of
    \* the data port inside the sample under the read pointer, FIFO slots
    \* (a pattern id, 0 when never written), samples appended so far and
    \* since the write pointer was last written.
    reg, devWr, devRd, devOff, fifo, produced, sinceReset,
    \* The bus: every transaction issued (operation, register, the byte
    \* written or the number of bytes asked for, outcome, bytes delivered),
    \* faults injected so far, and whether the CPU is stuck inside a bus
    \* primitive.
    busLog, faults, hung,
    \* Limits of the run (fixed by the initial state).
    lim,
    \* History kept for the properties: the period that wrote each entry
    \* of the result buffer, the result buffer when the current trigger
    \* invocation (or the client's current call of the driver) began,
    \* whether a bus transaction failed during the invocation, the
    \* device read pointer and the bus log length when the current driver
    \* call began, and the period tags a foreground reader has copied.
    bufPeriod, bufAtEntry, isrFault, rdAtCall, logAtCall, snap

mainVars == <<mainPc, counter, systickOn>>
isrVars == <<isrPc, ticks, available_samples, led>>
testVars == <<testPc, calls>>
fnVars == <<fn, fnPc, ledPower, write_ptr, read_ptr, num_samples,
            req_samples, i, fifo_data>>
bufVars == <<MAX30101_FIFO_Buffer, MAX30101_SampleDataBuffer,
             MAX30101_SampleCurrentBuffer, overrun,
             bufPeriod>>
devVars == <<reg, devWr, devRd, devOff, fifo, produced, sinceReset>>
busVars == <<busLog, faults, hung>>
histVars == <<bufAtEntry, isrFault, rdAtCall, logAtCall, snap>>

vars == <<mainVars, isrVars, testVars, fnVars, bufVars, devVars, busVars,
          lim, histVars>>

BufIndex == 0..(BUFFER_CAPACITY - 1)

ZeroCurrent == [red |-> 0, ir |-> 0, green |-> 0]

ZeroRaw == <<0, 0, 0, 0, 0, 0>>

ZeroData == [red |-> 0, ir |-> 0, green |-> 0]

InitFns == {"InitSPO2Lite", "InitMuscleOx"}

(***************************************************************************)
(* The sensor.                                                             *)
(***************************************************************************)
\* Channels per sample in the mode the sensor is in, and bytes per sample
\* (two bytes per channel).
ChannelCount == IF reg[MODE_CONFIG] = MODE_SPO2 THEN 2 ELSE 3

BytesPerSample == 2 * ChannelCount

\* The sensor converts only in one of the two acquisition modes.
Sampling == reg[MODE_CONFIG] \in {MODE_SPO2, MODE_MULTILED}

\* Byte k (from 1) of the sample in slot s.
SlotByte(s, k) == IF fifo[s] = 0 THEN 0 ELSE Patterns[fifo[s]][k]

\* k bytes clocked out of the data port, starting at read pointer rd and
\* byte offset off: the port steps through the sample and moves the read
\* pointer to the next slot after the sample's last byte.
RECURSIVE FifoBurst(_, _, _, _)
FifoBurst(rd, off, k, acc) ==
    IF k = 0 THEN [data |-> acc, rd |-> rd, off |-> off]
    ELSE LET last == (off + 1 >= BytesPerSample)
         IN FifoBurst(IF last THEN (rd + 1) % FIFO_DEPTH ELSE rd,
                      IF last THEN 0 ELSE off + 1,
                      k - 1,
                      Append(acc, SlotByte(rd, off + 1)))

\* The sensor appends one sample; successive samples cycle through the
\* byte patterns, so neighbouring samples always differ.
DeviceSample ==
    /\ Sampling
    /\ produced < lim.samples
    /\ fifo' = [fifo EXCEPT ![devWr] = (produced % Len(Patterns)) + 1]
    /\ devWr' = (devWr + 1) % FIFO_DEPTH
    /\ produced' = produced + 1
    /\ sinceReset' = sinceReset + 1
    /\ UNCHANGED <<reg, devRd, devOff>>
    /\ UNCHANGED <<mainVars, isrVars, testVars, fnVars, bufVars, busVars,
                   lim, histVars>>

\* Samples the driver has clocked out of the data port so far (one 6-byte
\* burst is one sample of the triple-channel profile), and samples appended
\* and not yet clocked out.
Consumed ==
    Cardinality({k \in 1..Len(busLog) :
        busLog[k].op = "R" /\ busLog[k].reg = FIFO_DATAREG
                           /\ busLog[k].res = "ok"})

Unread == produced - Consumed

\* The sensor appends n samples while the handler is not running (the
\* samples of the time between two trigger periods), never more than its
\* FIFO has room for.
DeviceBurst(n) ==
    /\ Sampling /\ systickOn /\ isrPc = "idle" /\ ~hung
    /\ produced + n <= lim.samples
    /\ Unread + n <= FIFO_DEPTH
    /\ fifo' = [s \in 0..(FIFO_DEPTH - 1) |->
                  LET d == (s - devWr) % FIFO_DEPTH
                  IN IF d < n THEN ((produced + d) % Len(Patterns)) + 1
                     ELSE fifo[s]]
    /\ devWr' = (devWr + n) % FIFO_DEPTH
    /\ produced' = produced + n
    /\ sinceReset' = sinceReset + n
    /\ UNCHANGED <<reg, devRd, devOff>>
    /\ UNCHANGED <<mainVars, isrVars, testVars, fnVars, bufVars, busVars,
                   lim, histVars>>

\* What a register write does inside the sensor.
DeviceWrite(addr, data) ==
    /\ reg' = IF addr \in ConfigRegs THEN [reg EXCEPT ![addr] = data] ELSE reg
    /\ devWr' = IF addr = FIFO_WRITPTR THEN Mask5(data) ELSE devWr
    /\ devRd' = IF addr = FIFO_READPTR THEN Mask5(data) ELSE devRd
    /\ devOff' = IF addr = FIFO_READPTR THEN 0 ELSE devOff
    /\ sinceReset' = IF addr = FIFO_WRITPTR THEN 0 ELSE sinceReset
    /\ UNCHANGED <<fifo, produced>>

\* The bytes a read of `size` bytes at register addr delivers.
DeviceReadData(addr, size) ==
    IF addr = FIFO_DATAREG THEN FifoBurst(devRd, devOff, size, <<>>).data
    ELSE IF addr = FIFO_WRITPTR THEN <<devWr>>
    ELSE IF addr = FIFO_READPTR THEN <<devRd>>
    ELSE <<reg[addr]>>

\* What that read does inside the sensor.
DeviceRead(addr, size) ==
    /\ devRd' = IF addr = FIFO_DATAREG
                THEN FifoBurst(devRd, devOff, size, <<>>).rd ELSE devRd
    /\ devOff' = IF addr = FIFO_DATAREG
                 THEN FifoBurst(devRd, devOff, size, <<>>).off ELSE devOff
    /\ UNCHANGED <<reg, devWr, fifo, produced, sinceReset>>

(***************************************************************************)
(* The bus primitives.  Both return void.  A transaction either completes  *)
(* ("ok"), is not acknowledged by the sensor ("nack": nothing reaches the  *)
(* sensor, nothing is delivered, and the primitive returns), or never      *)
(* completes ("stall": the primitive waits for a flag that never comes).   *)
(***************************************************************************)
BusOutcomes == IF faults < lim.faults THEN {"ok", "nack", "stall"} ELSE {"ok"}

BusEffect(o, op, addr, arg, data) ==
    /\ busLog' = Append(busLog, [op |-> op, reg |-> addr, arg |-> arg,
                                 res |-> o, data |-> data])
    /\ faults' = IF o = "ok" THEN faults ELSE faults + 1
    /\ hung' = (o = "stall")
    /\ isrFault' = (isrFault \/ (o # "ok" /\ isrPc # "idle"))

I2C1_Write(o, addr, data) ==
    /\ BusEffect(o, "W", addr, data, <<>>)
    /\ IF o = "ok" THEN DeviceWrite(addr, data) ELSE UNCHANGED devVars

I2C1_Read(o, addr, size) ==
    /\ BusEffect(o, "R", addr, size,
                 IF o = "ok" THEN DeviceReadData(addr, size) ELSE <<>>)
    /\ IF o = "ok" THEN DeviceRead(addr, size) ELSE UNCHANGED devVars

\* What the caller's buffer holds after I2C1_Read: the bytes delivered, or
\* what it held before (garbage g while it was never written).
ReadInto(o, old, addr, size, g) ==
    IF o = "ok" THEN DeviceReadData(addr, size)
    ELSE IF old = <<>> THEN g ELSE old


\* What an unwritten local array may hold.
Garbage == {<<0, 0, 0, 0, 0, 0>>, <<255, 255, 255, 255, 255, 255>>}

(***************************************************************************)
(* The driver (MAX30101.c).  Each action is one bus transaction of the     *)
(* function being executed together with the code that follows it up to    *)
(* the next transaction.                                                   *)
(***************************************************************************)
\* InitSPO2LiteSeq without the two writes that zero the FIFO pointers.
InitSPO2LiteSeqNoPointerReset ==
    << <<FIFO_CONFIG, 79>>, <<MODE_CONFIG, MODE_SPO2>>, <<SPO2_CONFIG, 35>>,
       <<LED1_PAMPLI, 24>>, <<LED2_PAMPLI, 24>>, <<DIE_TEMPCFG, 1>> >>

\* The register writes of MAX30101_InitSPO2Lite, in program order.
InitSPO2LiteSeq ==
    << <<FIFO_CONFIG, 79>>, <<MODE_CONFIG, MODE_SPO2>>, <<SPO2_CONFIG, 35>>,
       <<FIFO_READPTR, 0>>, <<FIFO_WRITPTR, 0>>, <<LED1_PAMPLI, 24>>,
       <<LED2_PAMPLI, 24>>, <<DIE_TEMPCFG, 1>> >>

\* InitMuscleOxSeq with the pointer resets moved ahead of the mode write.
InitMuscleOxSeqPtrFirst(lp) ==
    << <<FIFO_CONFIG, 79>>, <<FIFO_READPTR, 0>>, <<FIFO_WRITPTR, 0>>,
       <<MODE_CONFIG, MODE_MULTILED>>, <<SPO2_CONFIG, 38>>, <<LED1_PAMPLI, lp>>,
       <<LED2_PAMPLI, lp>>, <<LED3_PAMPLI, lp>>, <<DIE_TEMPCFG, 1>> >>

\* The register writes of MAX30101_InitMuscleOx(lp), in program order.
InitMuscleOxSeq(lp) ==
    << <<FIFO_CONFIG, 79>>, <<MODE_CONFIG, MODE_MULTILED>>, <<SPO2_CONFIG, 38>>,
       <<FIFO_READPTR, 0>>, <<FIFO_WRITPTR, 0>>, <<LED1_PAMPLI, lp>>,
       <<LED2_PAMPLI, lp>>, <<LED3_PAMPLI, lp>>, <<DIE_TEMPCFG, 1>> >>

InitSeq == IF fn = "InitSPO2Lite" THEN InitSPO2LiteSeq ELSE InitMuscleOxSeq(ledPower)

\* One I2C1_Write of the configuration function being executed.  The
\* function goes on to its next write whatever the bus did.
Init_Write ==
    /\ fn \in InitFns /\ fnPc \in 1..Len(InitSeq) /\ ~hung
    /\ \E o \in BusOutcomes :
         /\ I2C1_Write(o, InitSeq[fnPc][1], InitSeq[fnPc][2])
         /\ fnPc' = IF o = "stall" THEN fnPc
                    ELSE IF fnPc = Len(InitSeq) THEN 0 ELSE fnPc + 1
    /\ UNCHANGED <<fn, ledPower, write_ptr, read_ptr, num_samples,
                   req_samples, i, fifo_data>>
    /\ UNCHANGED <<mainVars, isrVars, testVars, bufVars, lim,
                   bufAtEntry, rdAtCall, logAtCall, snap>>

\* MAX30101_GetNumAvailableSamples: I2C1_Read(SENSOR_ADDR, FIFO_WRITPTR, ..).
GetNum_ReadWritePtr ==
    /\ fn = "GetNumAvailableSamples" /\ fnPc = 1 /\ ~hung
    /\ \E o \in BusOutcomes :
         /\ I2C1_Read(o, FIFO_WRITPTR, 1)
         /\ write_ptr' = ReadInto(o, <<write_ptr>>, FIFO_WRITPTR, 1, <<>>)[1]
         /\ fnPc' = IF o = "stall" THEN 1 ELSE 2
    /\ UNCHANGED <<fn, ledPower, read_ptr, num_samples, req_samples, i,
                   fifo_data>>
    /\ UNCHANGED <<mainVars, isrVars, testVars, bufVars, lim,
                   bufAtEntry, rdAtCall, logAtCall, snap>>

\* MAX30101_GetNumAvailableSamples: I2C1_Read(SENSOR_ADDR, FIFO_READPTR, ..).
GetNum_ReadReadPtr ==
    /\ fn = "GetNumAvailableSamples" /\ fnPc = 2 /\ ~hung
    /\ \E o \in BusOutcomes :
         /\ I2C1_Read(o, FIFO_READPTR, 1)
         /\ read_ptr' = ReadInto(o, <<read_ptr>>, FIFO_READPTR, 1, <<>>)[1]
         /\ fnPc' = IF o = "stall" THEN 2 ELSE 3
    /\ UNCHANGED <<fn, ledPower, write_ptr, num_samples, req_samples, i,
                   fifo_data>>
    /\ UNCHANGED <<mainVars, isrVars, testVars, bufVars, lim,
                   bufAtEntry, rdAtCall, logAtCall, snap>>

\* MAX30101_GetNumAvailableSamples: the masks, the subtraction, the return.
GetNum_Compute ==
    /\ fn = "GetNumAvailableSamples" /\ fnPc = 3 /\ ~hung
    /\ write_ptr' = Mask5(write_ptr)
    /\ read_ptr' = Mask5(read_ptr)
    /\ num_samples' = NumAvailable(write_ptr, read_ptr)
    /\ fnPc' = 0
    /\ UNCHANGED <<fn, ledPower, req_samples, i, fifo_data>>
    /\ UNCHANGED <<mainVars, isrVars, testVars, bufVars, devVars, busVars,
                   lim, histVars>>

\* LoopPc of a loop that tests its condition after the body (do/while).
LoopPcTestAfter(idx, n) == IF idx = 0 \/ idx < n THEN 1 ELSE 0

\* Where a FIFO reader is after its loop test: in the loop (1) or returned.
LoopPc(idx, n) == IF idx < n THEN 1 ELSE 0

\* The size argument of the I2C1_Read of MAX30101_ReadFIFO and of
\* MAX30101_ReadFIFO_Current.
ReadFIFO_Burst == 6

ReadFIFO_Current_Burst == 6

\* One iteration of the loop of MAX30101_ReadFIFO_Current(
\* MAX30101_SampleCurrentBuffer, req_samples): read, convert, store at [i].
ReadFIFO_Current_Iter ==
    /\ fn = "ReadFIFO_Current" /\ fnPc = 1 /\ ~hung
    /\ \E o \in BusOutcomes, g \in Garbage :
         /\ I2C1_Read(o, FIFO_DATAREG, ReadFIFO_Current_Burst)
         /\ IF o = "stall"
            THEN UNCHANGED <<fifo_data, i, fnPc, bufVars>>
            ELSE LET d == ReadInto(o, fifo_data, FIFO_DATAREG, ReadFIFO_Current_Burst, g)
                 IN /\ fifo_data' = d
                    /\ IF i \in BufIndex
                       THEN /\ MAX30101_SampleCurrentBuffer' =
                                 [MAX30101_SampleCurrentBuffer EXCEPT
                                    ![i] = FusedConvert(d)]
                            /\ bufPeriod' = [bufPeriod EXCEPT ![i] = ticks]
                            /\ UNCHANGED overrun
                       ELSE /\ overrun' = overrun \cup {i}
                            /\ UNCHANGED <<MAX30101_SampleCurrentBuffer,
                                           bufPeriod>>
                    /\ i' = i + 1
                    /\ fnPc' = LoopPc(i + 1, req_samples)
                    /\ UNCHANGED <<MAX30101_FIFO_Buffer,
                                   MAX30101_SampleDataBuffer>>
    /\ UNCHANGED <<fn, ledPower, write_ptr, read_ptr, num_samples, req_samples>>
    /\ UNCHANGED <<mainVars, isrVars, testVars, lim,
                   bufAtEntry, rdAtCall, logAtCall, snap>>

\* One iteration of the loop of MAX30101_ReadFIFO(MAX30101_FIFO_Buffer,
\* req_samples): read, store the six bytes at [i].
ReadFIFO_Iter ==
    /\ fn = "ReadFIFO" /\ fnPc = 1 /\ ~hung
    /\ \E o \in BusOutcomes, g \in Garbage :
         /\ I2C1_Read(o, FIFO_DATAREG, ReadFIFO_Burst)
         /\ IF o = "stall"
            THEN UNCHANGED <<fifo_data, i, fnPc, bufVars>>
            ELSE LET d == ReadInto(o, fifo_data, FIFO_DATAREG, ReadFIFO_Burst, g)
                 IN /\ fifo_data' = d
                    /\ IF i \in BufIndex
                       THEN /\ MAX30101_FIFO_Buffer' =
                                 [MAX30101_FIFO_Buffer EXCEPT ![i] = RawStore(d)]
                            /\ UNCHANGED overrun
                       ELSE /\ overrun' = overrun \cup {i}
                            /\ UNCHANGED MAX30101_FIFO_Buffer
                    /\ i' = i + 1
                    /\ fnPc' = LoopPc(i + 1, req_samples)
                    /\ UNCHANGED <<MAX30101_SampleDataBuffer,
                                   MAX30101_SampleCurrentBuffer, bufPeriod>>
    /\ UNCHANGED <<fn, ledPower, write_ptr, read_ptr, num_samples, req_samples>>
    /\ UNCHANGED <<mainVars, isrVars, testVars, lim,
                   bufAtEntry, rdAtCall, logAtCall, snap>>

\* Entering a driver function: parameters and initialised locals.
EnterInit(f, lp) ==
    /\ fn' = f /\ fnPc' = 1 /\ ledPower' = lp
    /\ rdAtCall' = devRd /\ logAtCall' = Len(busLog)
    /\ UNCHANGED <<write_ptr, read_ptr, num_samples, req_samples, i, fifo_data>>

EnterGetNum ==
    /\ fn' = "GetNumAvailableSamples" /\ fnPc' = 1
    /\ write_ptr' = 0 /\ read_ptr' = 0 /\ num_samples' = 0
    /\ rdAtCall' = devRd /\ logAtCall' = Len(busLog)
    /\ UNCHANGED <<ledPower, req_samples, i, fifo_data>>

EnterReader(f, n) ==
    /\ fn' = f /\ req_samples' = n /\ i' = 0 /\ fifo_data' = <<>>
    /\ fnPc' = LoopPc(0, n)
    /\ rdAtCall' = devRd /\ logAtCall' = Len(busLog)
    /\ UNCHANGED <<ledPower, write_ptr, read_ptr, num_samples>>


(***************************************************************************)
(* main() (main.c).  It runs only while the handler is not running.        *)
(***************************************************************************)
MainRuns == isrPc = "idle" /\ ~hung

Main_clk_config ==
    /\ mainPc = "clk_config" /\ MainRuns
    /\ mainPc' = "LED_config"
    /\ UNCHANGED <<counter, systickOn, isrVars, testVars, fnVars, bufVars,
                   devVars, busVars, lim, histVars>>

Main_LED_config ==
    /\ mainPc = "LED_config" /\ MainRuns
    /\ mainPc' = "I2C1_Config"
    /\ UNCHANGED <<counter, systickOn, isrVars, testVars, fnVars, bufVars,
                   devVars, busVars, lim, histVars>>

Main_I2C1_Config ==
    /\ mainPc = "I2C1_Config" /\ MainRuns
    /\ mainPc' = "InitMuscleOx"
    /\ UNCHANGED <<counter, systickOn, isrVars, testVars, fnVars, bufVars,
                   devVars, busVars, lim, histVars>>

\* Main_InitMuscleOx with SysTick_Config called ahead of it.
Main_InitMuscleOxAfterSysTick ==
    /\ mainPc = "InitMuscleOx" /\ MainRuns
    /\ EnterInit("InitMuscleOx", MAIN_LED_POWER)
    /\ mainPc' = "InitMuscleOx_return"
    /\ systickOn' = TRUE
    /\ UNCHANGED <<counter, isrVars, testVars, bufVars, devVars,
                   busVars, lim, bufAtEntry, isrFault, snap>>

\* MAX30101_InitMuscleOx(0x4B);
Main_InitMuscleOx ==
    /\ mainPc = "InitMuscleOx" /\ MainRuns
    /\ EnterInit("InitMuscleOx", MAIN_LED_POWER)
    /\ mainPc' = "InitMuscleOx_return"
    /\ UNCHANGED <<counter, systickOn, isrVars, testVars, bufVars, devVars,
                   busVars, lim, bufAtEntry, isrFault, snap>>

\* SysTick_Config(SystemCoreClock / 10); reached as soon as the
\* configuration function has returned.
Main_SysTick_Config ==
    /\ mainPc = "InitMuscleOx_return" /\ fnPc = 0 /\ MainRuns
    /\ systickOn' = TRUE
    /\ mainPc' = "loop"
    /\ fn' = "none"
    /\ UNCHANGED <<fnPc, ledPower, write_ptr, read_ptr, num_samples,
                   req_samples, i, fifo_data>>
    /\ UNCHANGED <<counter, isrVars, testVars, bufVars, devVars, busVars,
                   lim, histVars>>

\* for (;;) { counter++; }
Main_Loop ==
    /\ mainPc = "loop" /\ MainRuns
    /\ counter < lim.counter
    /\ counter' = counter + 1
    /\ UNCHANGED <<mainPc, systickOn, isrVars, testVars, fnVars, bufVars,
                   devVars, busVars, lim, histVars>>

(***************************************************************************)
(* A foreground consumer of the result buffer: it copies the buffer one    *)
(* entry at a time from the idle loop, with nothing that defers the        *)
(* handler; a copy of all entries is one snapshot.  Only the period that   *)
(* wrote each entry is kept.                                               *)
(***************************************************************************)
Foreground_Copy ==
    /\ mainPc = "loop" /\ MainRuns
    /\ lim.reader
    /\ snap' = IF Len(snap) = BUFFER_CAPACITY THEN <<bufPeriod[0]>>
               ELSE Append(snap, bufPeriod[Len(snap)])
    /\ UNCHANGED <<mainVars, isrVars, testVars, fnVars, bufVars, devVars,
                   busVars, lim, bufAtEntry, isrFault, rdAtCall, logAtCall>>

(***************************************************************************)
(* SysTick_Handler (main.c).  It preempts main's loop and cannot nest.     *)
(***************************************************************************)
\* Exception entry; ticks++; the call of MAX30101_GetNumAvailableSamples.
SysTick_Handler_Enter ==
    /\ systickOn /\ isrPc = "idle" /\ ~hung
    /\ ticks < lim.ticks
    /\ ticks' = ticks + 1
    /\ isrPc' = "GetNumAvailableSamples"
    /\ EnterGetNum
    /\ bufAtEntry' = MAX30101_SampleCurrentBuffer
    /\ isrFault' = FALSE
    /\ UNCHANGED <<available_samples, led, mainVars, testVars, bufVars,
                   devVars, busVars, lim, snap>>

\* HandlerRequest asking for one sample fewer than were reported.
HandlerRequestOneLess(n) == n - 1

\* uint8_t available_samples = <return value>; if (available_samples > 0)
\* MAX30101_ReadFIFO_Current(MAX30101_SampleCurrentBuffer, available_samples);
HandlerRequest(n) == n

SysTick_Handler_Available ==
    /\ isrPc = "GetNumAvailableSamples" /\ fnPc = 0 /\ ~hung
    /\ available_samples' = num_samples
    /\ IF num_samples > 0
       THEN /\ EnterReader("ReadFIFO_Current", HandlerRequest(num_samples))
            /\ isrPc' = "ReadFIFO_Current"
       ELSE /\ isrPc' = "LED_Toggle"
            /\ fn' = "none"
            /\ UNCHANGED <<fnPc, ledPower, write_ptr, read_ptr, num_samples,
                           req_samples, i, fifo_data, rdAtCall, logAtCall>>
    /\ UNCHANGED <<ticks, led, mainVars, testVars, bufVars, devVars, busVars,
                   lim, bufAtEntry, isrFault, snap>>

\* MAX30101_ReadFIFO_Current has returned.
SysTick_Handler_ReadDone ==
    /\ isrPc = "ReadFIFO_Current" /\ fnPc = 0 /\ ~hung
    /\ isrPc' = "LED_Toggle"
    /\ fn' = "none"
    /\ UNCHANGED <<fnPc, ledPower, write_ptr, read_ptr, num_samples,
                   req_samples, i, fifo_data>>
    /\ UNCHANGED <<ticks, available_samples, led, mainVars, testVars, bufVars,
                   devVars, busVars, lim, histVars>>

\* LED_Toggle(); and the exception return.
SysTick_Handler_LED_Toggle ==
    /\ isrPc = "LED_Toggle" /\ ~hung
    /\ led' = 1 - led
    /\ isrPc' = "idle"
    /\ UNCHANGED <<ticks, available_samples, mainVars, testVars, fnVars,
                   bufVars, devVars, busVars, lim, histVars>>

(***************************************************************************)
(* A client of the driver: after one of the two configuration functions    *)
(* it calls any of the driver's functions, one after the other.            *)
(***************************************************************************)
LedPowers == {MAIN_LED_POWER, 24}

TestCanCall == testPc \in {"start", "idle"} /\ calls < lim.calls /\ ~hung

Test_InitSPO2Lite ==
    /\ TestCanCall
    /\ EnterInit("InitSPO2Lite", ledPower)
    /\ testPc' = "busy" /\ calls' = calls + 1
    /\ bufAtEntry' = MAX30101_SampleCurrentBuffer
    /\ UNCHANGED <<mainVars, isrVars, bufVars, devVars, busVars, lim,
                   isrFault, snap>>

Test_InitMuscleOx ==
    /\ TestCanCall
    /\ \E lp \in LedPowers : EnterInit("InitMuscleOx", lp)
    /\ testPc' = "busy" /\ calls' = calls + 1
    /\ bufAtEntry' = MAX30101_SampleCurrentBuffer
    /\ UNCHANGED <<mainVars, isrVars, bufVars, devVars, busVars, lim,
                   isrFault, snap>>

Test_GetNumAvailableSamples ==
    /\ TestCanCall /\ testPc = "idle"
    /\ EnterGetNum
    /\ testPc' = "busy" /\ calls' = calls + 1
    /\ bufAtEntry' = MAX30101_SampleCurrentBuffer
    /\ UNCHANGED <<mainVars, isrVars, bufVars, devVars, busVars, lim,
                   isrFault, snap>>

Test_ReadFIFO ==
    /\ TestCanCall /\ testPc = "idle"
    /\ \E n \in 0..lim.req : EnterReader("ReadFIFO", n)
    /\ testPc' = "busy" /\ calls' = calls + 1
    /\ bufAtEntry' = MAX30101_SampleCurrentBuffer
    /\ UNCHANGED <<mainVars, isrVars, bufVars, devVars, busVars, lim,
                   isrFault, snap>>

Test_ReadFIFO_Current ==
    /\ TestCanCall /\ testPc = "idle"
    /\ \E n \in 0..lim.req : EnterReader("ReadFIFO_Current", n)
    /\ testPc' = "busy" /\ calls' = calls + 1
    /\ bufAtEntry' = MAX30101_SampleCurrentBuffer
    /\ UNCHANGED <<mainVars, isrVars, bufVars, devVars, busVars, lim,
                   isrFault, snap>>

Test_Return ==
    /\ testPc = "busy" /\ fnPc = 0 /\ ~hung
    /\ testPc' = "idle"
    /\ fn' = "none"
    /\ UNCHANGED <<fnPc, ledPower, write_ptr, read_ptr, num_samples,
                   req_samples, i, fifo_data>>
    /\ UNCHANGED <<calls, mainVars, isrVars, bufVars, devVars, busVars, lim,
                   histVars>>

\* The client calls MAX30101_ConvertSampleToUint16(&MAX30101_FIFO_Buffer[0],
\* &MAX30101_SampleDataBuffer[0]); the function issues no bus transaction
\* and has returned at the end of the step.
Test_ConvertSampleToUint16 ==
    /\ TestCanCall
    /\ MAX30101_SampleDataBuffer' =
         [MAX30101_SampleDataBuffer EXCEPT
            ![0] = ConvertSampleToUint16(MAX30101_FIFO_Buffer[0])]
    /\ fn' = "ConvertSampleToUint16" /\ fnPc' = 0
    /\ testPc' = "busy" /\ calls' = calls + 1
    /\ UNCHANGED <<ledPower, write_ptr, read_ptr, num_samples, req_samples,
                   i, fifo_data>>
    /\ UNCHANGED <<MAX30101_FIFO_Buffer, MAX30101_SampleCurrentBuffer,
                   overrun, bufPeriod>>
    /\ UNCHANGED <<mainVars, isrVars, devVars, busVars, lim, histVars>>

(***************************************************************************)
(* Initial states and specifications.                                      *)
(***************************************************************************)
\* Everything but the limits, the callers' positions and the driver call:
\* zeroed globals, the sensor after power-on (shut down, FIFO empty).
InitExceptRaw ==
    /\ counter = 0 /\ systickOn = FALSE
    /\ ticks = 0 /\ available_samples = 0 /\ led = 0
    /\ calls = 0
    /\ ledPower = 0 /\ req_samples = 0 /\ i = 0 /\ fifo_data = <<>>
    /\ MAX30101_SampleDataBuffer = [k \in BufIndex |-> ZeroData]
    /\ MAX30101_SampleCurrentBuffer = [k \in BufIndex |-> ZeroCurrent]
    /\ overrun = {}
    /\ reg = [a \in ConfigRegs |-> 0]
    /\ devWr = 0 /\ devRd = 0 /\ devOff = 0
    /\ fifo = [k \in 0..(FIFO_DEPTH - 1) |-> 0]
    /\ produced = 0 /\ sinceReset = 0
    /\ busLog = <<>> /\ faults = 0 /\ hung = FALSE
    /\ bufPeriod = [k \in BufIndex |-> 0]
    /\ bufAtEntry = [k \in BufIndex |-> ZeroCurrent]
    /\ isrFault = FALSE /\ rdAtCall = 0 /\ logAtCall = 0 /\ snap = <<>>

InitCommon ==
    /\ InitExceptRaw
    /\ MAX30101_FIFO_Buffer = [k \in BufIndex |-> ZeroRaw]

ProgramStart ==
    /\ InitCommon
    /\ mainPc = "clk_config" /\ isrPc = "idle" /\ testPc = "off"
    /\ fn = "none" /\ fnPc = 0
    /\ write_ptr = 0 /\ read_ptr = 0 /\ num_samples = 0

\* The program of main.c on a healthy bus.
Init ==
    /\ ProgramStart
    /\ lim = [samples |-> MaxSamples, ticks |-> MaxTicks, counter |-> MaxCounter,
              faults |-> 0, calls |-> 0, req |-> 0, reader |-> FALSE]

ProgramNext ==
    \/ Main_clk_config \/ Main_LED_config \/ Main_I2C1_Config
    \/ Main_InitMuscleOx \/ Init_Write \/ Main_SysTick_Config \/ Main_Loop
    \/ SysTick_Handler_Enter \/ GetNum_ReadWritePtr \/ GetNum_ReadReadPtr
    \/ GetNum_Compute \/ SysTick_Handler_Available \/ ReadFIFO_Current_Iter
    \/ SysTick_Handler_ReadDone \/ SysTick_Handler_LED_Toggle
    \/ DeviceSample

Next == ProgramNext

Spec == Init /\ [][Next]_vars

\* The program of main.c on a bus that may fail.
FaultInit ==
    /\ ProgramStart
    /\ lim = [samples |-> FaultSamples, ticks |-> MaxTicks, counter |-> 0,
              faults |-> MaxFaults, calls |-> 0, req |-> 0, reader |-> FALSE]

FaultNext ==
    \/ Main_clk_config \/ Main_LED_config \/ Main_I2C1_Config
    \/ Main_InitMuscleOx \/ Init_Write \/ Main_SysTick_Config
    \/ SysTick_Handler_Enter \/ GetNum_ReadWritePtr \/ GetNum_ReadReadPtr
    \/ GetNum_Compute \/ SysTick_Handler_Available \/ ReadFIFO_Current_Iter
    \/ SysTick_Handler_ReadDone \/ SysTick_Handler_LED_Toggle
    \/ DeviceSample

FaultSpec == FaultInit /\ [][FaultNext]_vars

\* The program of main.c with a foreground consumer of the result buffer.
RaceInit ==
    /\ ProgramStart
    /\ lim = [samples |-> RaceSamples, ticks |-> RaceTicks, counter |-> 0,
              faults |-> 0, calls |-> 0, req |-> 0, reader |-> TRUE]

RaceNext ==
    \/ Main_clk_config \/ Main_LED_config \/ Main_I2C1_Config
    \/ Main_InitMuscleOx \/ Init_Write \/ Main_SysTick_Config
    \/ Foreground_Copy
    \/ SysTick_Handler_Enter \/ GetNum_ReadWritePtr \/ GetNum_ReadReadPtr
    \/ GetNum_Compute \/ SysTick_Handler_Available \/ ReadFIFO_Current_Iter
    \/ SysTick_Handler_ReadDone \/ SysTick_Handler_LED_Toggle
    \/ DeviceSample

RaceSpec == RaceInit /\ [][RaceNext]_vars

\* The program of main.c on a healthy bus, the sensor appending its samples
\* in batches between the trigger periods, up to a full FIFO.
FilledInit ==
    /\ ProgramStart
    /\ lim = [samples |-> FilledSamples, ticks |-> FilledTicks, counter |-> 0,
              faults |-> 0, calls |-> 0, req |-> 0, reader |-> FALSE]

FilledNext ==
    \/ Main_clk_config \/ Main_LED_config \/ Main_I2C1_Config
    \/ Main_InitMuscleOx \/ Init_Write \/ Main_SysTick_Config
    \/ SysTick_Handler_Enter \/ GetNum_ReadWritePtr \/ GetNum_ReadReadPtr
    \/ GetNum_Compute \/ SysTick_Handler_Available \/ ReadFIFO_Current_Iter
    \/ SysTick_Handler_ReadDone \/ SysTick_Handler_LED_Toggle
    \/ \E n \in 1..FIFO_DEPTH : DeviceBurst(n)

FilledSpec == FilledInit /\ [][FilledNext]_vars

\* The program of main.c over several trigger periods, the sensor appending
\* batches of samples between them until its pointers have wrapped.
StreamInit ==
    /\ ProgramStart
    /\ lim = [samples |-> StreamSamples, ticks |-> StreamTicks, counter |-> 0,
              faults |-> 0, calls |-> 0, req |-> 0, reader |-> FALSE]

\* Batches the sensor appends between two trigger periods in these runs.
StreamBursts == {3, BUFFER_CAPACITY}

\* The sensor appends a batch that leaves it with no more unread samples
\* than the result buffer has entries.
StreamBurst ==
    \E n \in StreamBursts :
        /\ Unread + n <= BUFFER_CAPACITY
        /\ DeviceBurst(n)

StreamNext ==
    \/ Main_clk_config \/ Main_LED_config \/ Main_I2C1_Config
    \/ Main_InitMuscleOx \/ Init_Write \/ Main_SysTick_Config
    \/ SysTick_Handler_Enter \/ GetNum_ReadWritePtr \/ GetNum_ReadReadPtr
    \/ GetNum_Compute \/ SysTick_Handler_Available \/ ReadFIFO_Current_Iter
    \/ SysTick_Handler_ReadDone \/ SysTick_Handler_LED_Toggle
    \/ StreamBurst

StreamSpec == StreamInit /\ [][StreamNext]_vars

\* A client calling the driver's functions, on a healthy bus.
DriverInit ==
    /\ InitCommon
    /\ mainPc = "off" /\ isrPc = "idle" /\ testPc = "start"
    /\ fn = "none" /\ fnPc = 0
    /\ write_ptr = 0 /\ read_ptr = 0 /\ num_samples = 0
    /\ lim = [samples |-> DriverSamples, ticks |-> 0, counter |-> 0,
              faults |-> 0, calls |-> MaxCalls, req |-> MaxReq,
              reader |-> FALSE]

DriverNext ==
    \/ Test_InitSPO2Lite \/ Test_InitMuscleOx \/ Test_GetNumAvailableSamples
    \/ Test_ReadFIFO \/ Test_ReadFIFO_Current \/ Test_Return
    \/ Init_Write \/ GetNum_ReadWritePtr \/ GetNum_ReadReadPtr
    \/ GetNum_Compute \/ ReadFIFO_Current_Iter \/ ReadFIFO_Iter
    \/ DeviceSample

DriverSpec == DriverInit /\ [][DriverNext]_vars

\* A client calling the driver's functions, on a bus that may fail.
DriverFaultInit ==
    /\ InitCommon
    /\ mainPc = "off" /\ isrPc = "idle" /\ testPc = "start"
    /\ fn = "none" /\ fnPc = 0
    /\ write_ptr = 0 /\ read_ptr = 0 /\ num_samples = 0
    /\ lim = [samples |-> FaultSamples, ticks |-> 0, counter |-> 0,
              faults |-> MaxFaults, calls |-> FaultCalls, req |-> MaxReq,
              reader |-> FALSE]

DriverFaultSpec == DriverFaultInit /\ [][DriverNext]_vars

\* A client that may ask a FIFO reader for one sample more than the
\* destination buffers of main.c hold, on a healthy bus.
DriverBigInit ==
    /\ InitCommon
    /\ mainPc = "off" /\ isrPc = "idle" /\ testPc = "start"
    /\ fn = "none" /\ fnPc = 0
    /\ write_ptr = 0 /\ read_ptr = 0 /\ num_samples = 0
    /\ lim = [samples |-> FaultSamples, ticks |-> 0, counter |-> 0,
              faults |-> 0, calls |-> FaultCalls,
              req |-> BUFFER_CAPACITY + 1, reader |-> FALSE]

DriverBigSpec == DriverBigInit /\ [][DriverNext]_vars

\* MAX30101_GetNumAvailableSamples on every pair of bytes the bus can
\* deliver for the two pointer registers.
PtrInit ==
    /\ InitCommon
    /\ mainPc = "off" /\ isrPc = "idle" /\ testPc = "busy"
    /\ fn = "GetNumAvailableSamples" /\ fnPc = 3
    /\ write_ptr \in 0..UINT8_MAX /\ read_ptr \in 0..UINT8_MAX
    /\ num_samples = 0
    /\ lim = [samples |-> 0, ticks |-> 0, counter |-> 0,
              faults |-> 0, calls |-> 0, req |-> 0, reader |-> FALSE]

PtrNext == GetNum_Compute

PtrSpec == PtrInit /\ [][PtrNext]_vars

\* The client converts one raw sample.  The sample's three channels hold a
\* byte pair, the same pair with its bytes exchanged, and its complement,
\* for every byte pair.
ConvInit ==
    /\ InitExceptRaw
    /\ \E hi \in 0..UINT8_MAX, lo \in 0..UINT8_MAX :
         MAX30101_FIFO_Buffer =
             [k \in BufIndex |->
                 IF k = 0
                 THEN <<hi, lo, lo, hi, UINT8_MAX - hi, UINT8_MAX - lo>>
                 ELSE ZeroRaw]
    /\ mainPc = "off" /\ isrPc = "idle" /\ testPc = "idle"
    /\ fn = "none" /\ fnPc = 0
    /\ write_ptr = 0 /\ read_ptr = 0 /\ num_samples = 0
    /\ lim = [samples |-> 0, ticks |-> 0, counter |-> 0,
              faults |-> 0, calls |-> 1, req |-> 0, reader |-> FALSE]

ConvNext == Test_ConvertSampleToUint16

ConvSpec == ConvInit /\ [][ConvNext]_vars


(***************************************************************************)
(* Properties.                                                             *)
(***************************************************************************)
Returned(f) == fn = f /\ fnPc = 0

IsWrite(k, addr) == busLog[k].op = "W" /\ busLog[k].reg = addr

IsRead(k) == busLog[k].op = "R"

\* C1: for every pair of bytes the bus delivers for the two pointer
\* registers, MAX30101_GetNumAvailableSamples masks each to 5 bits and
\* returns (w - r) mod 32, a value in 0..31; w = 3, r = 29 gives 6.
C1_AvailableIsDifferenceMod32 ==
    Returned("GetNumAvailableSamples") =>
        /\ write_ptr \in 0..31 /\ read_ptr \in 0..31
        /\ num_samples = (write_ptr - read_ptr) % 32
        /\ num_samples \in 0..31
        /\ (write_ptr = 3 /\ read_ptr = 29) => num_samples = 6

C1_Witness ==
    /\ Returned("GetNumAvailableSamples")
    /\ write_ptr = 3 /\ read_ptr = 29 /\ num_samples = 6

\* C2: whenever the handler calls the fused reader it asks for
\* min(available, capacity) samples, and no write lands at an index at or
\* beyond the capacity of the result buffer.
C2_ReadsAtMostCapacity ==
    /\ overrun = {}
    /\ isrPc = "ReadFIFO_Current" =>
         req_samples = IF available_samples < BUFFER_CAPACITY
                       THEN available_samples ELSE BUFFER_CAPACITY

\* C3: every complete snapshot of the result buffer taken by the foreground
\* holds entries written in one single trigger period.
C3_SnapshotFromOnePeriod ==
    Len(snap) = BUFFER_CAPACITY =>
        \A a, b \in 1..BUFFER_CAPACITY :
            (snap[a] # 0 /\ snap[b] # 0) => snap[a] = snap[b]

\* C4: in both configuration functions the two pointer-zeroing writes come
\* after the FIFO_CONFIG and MODE_CONFIG writes of that configuration, with
\* no read in between, and every read issued once a configuration has begun
\* comes after both pointer-zeroing writes of it; and the first
\* availability query after a configuration returns 0 when the sensor has
\* appended no sample since the write pointer was zeroed.  (The log only
\* grows, so what holds of its newest transaction in every state holds of
\* every transaction.)
C4_PointerResetOrdering ==
    LET k == Len(busLog) IN
    /\ (k >= 1 /\ (IsWrite(k, FIFO_READPTR) \/ IsWrite(k, FIFO_WRITPTR))) =>
          /\ busLog[k].arg = 0
          /\ \E a \in 1..(k - 1) :
               /\ IsWrite(a, FIFO_CONFIG)
               /\ \A j \in a..k : ~IsRead(j)
               /\ \E b \in (a + 1)..(k - 1) : IsWrite(b, MODE_CONFIG)
    /\ (k >= 1 /\ IsRead(k)) =>
          \E c \in 1..(k - 1) :
            /\ IsWrite(c, FIFO_CONFIG)
            /\ \A j \in (c + 1)..k : ~IsWrite(j, FIFO_CONFIG)
            /\ \E a \in (c + 1)..(k - 1) :
                 /\ IsWrite(a, FIFO_READPTR)
                 /\ \E b \in (a + 1)..(k - 1) : IsWrite(b, FIFO_WRITPTR)
    /\ ( /\ Returned("GetNumAvailableSamples")
         /\ k >= 3
         /\ IsWrite(k - 2, DIE_TEMPCFG)
         /\ sinceReset = 0 )
       => num_samples = 0

C4_Witness ==
    /\ Returned("GetNumAvailableSamples")
    /\ Len(busLog) >= 3
    /\ IsWrite(Len(busLog) - 2, DIE_TEMPCFG)
    /\ sinceReset = 0 /\ produced > 0
    /\ num_samples = 0


\* C5: when the sensor does not acknowledge a register write of
\* MAX30101_InitSPO2Lite, the function issues no further write: an
\* unacknowledged write is the last transaction of the call.
C5_NackEndsConfiguration ==
    fn = "InitSPO2Lite" =>
        \A k \in (logAtCall + 1)..(Len(busLog) - 1) : busLog[k].res # "nack"

\* C6: when a bus transaction has failed during a trigger invocation, the
\* result buffer at the end of the invocation equals the result buffer at
\* its beginning, entry for entry.
C6_FailedPeriodLeavesBuffer ==
    (isrFault /\ isrPc \in {"LED_Toggle", "idle"}) =>
        MAX30101_SampleCurrentBuffer = bufAtEntry

\* The steps of the handler and of the functions it calls.
HandlerStep ==
    \/ GetNum_ReadWritePtr \/ GetNum_ReadReadPtr \/ GetNum_Compute
    \/ SysTick_Handler_Available \/ ReadFIFO_Current_Iter
    \/ SysTick_Handler_ReadDone \/ SysTick_Handler_LED_Toggle

\* C7: no bus primitive waits for ever, so a trigger invocation that has
\* begun can always take its next step towards returning.
C7_HandlerAlwaysProceeds == (isrPc # "idle") => ENABLED HandlerStep

\* C8: once a configuration write has failed during start-up, SysTick is
\* never enabled and no FIFO acquisition (no bus read) is performed.
C8_FailedConfigAbortsStartup ==
    (\E k \in 1..Len(busLog) : busLog[k].op = "W" /\ busLog[k].res # "ok") =>
        /\ ~systickOn
        /\ \A k \in 1..Len(busLog) : ~IsRead(k)

\* The two-stage path on the bytes of one burst: what MAX30101_ReadFIFO
\* stores, then both conversions.
TwoStage(d) == ConvertUint16ToCurrent(ConvertSampleToUint16(RawStore(d)))

\* C9: the fused reader and the two-stage path agree.  When
\* MAX30101_ReadFIFO_Current(n) has returned it has issued n transactions,
\* each the burst read MAX30101_ReadFIFO issues, and every sample it stored
\* is the two-stage conversion of the bytes that burst delivered; when
\* MAX30101_ReadFIFO(n) has returned it has issued n transactions, each the
\* burst read the fused reader issues, and the two conversions of every raw
\* sample it stored give what the fused loop body computes from the same
\* bytes.
C9_FusedEqualsTwoStage ==
    /\ Returned("ReadFIFO_Current") =>
         /\ Len(busLog) - logAtCall = req_samples
         /\ \A k \in 0..(req_samples - 1) :
              LET t == busLog[logAtCall + k + 1] IN
              /\ t.op = "R" /\ t.reg = FIFO_DATAREG /\ t.arg = ReadFIFO_Burst
              /\ k \in BufIndex =>
                   MAX30101_SampleCurrentBuffer[k] = TwoStage(t.data)
    /\ Returned("ReadFIFO") =>
         /\ Len(busLog) - logAtCall = req_samples
         /\ \A k \in 0..(req_samples - 1) :
              LET t == busLog[logAtCall + k + 1] IN
              /\ t.op = "R" /\ t.reg = FIFO_DATAREG
              /\ t.arg = ReadFIFO_Current_Burst
              /\ k \in BufIndex =>
                   ConvertUint16ToCurrent(
                       ConvertSampleToUint16(MAX30101_FIFO_Buffer[k]))
                     = FusedConvert(t.data)

\* Two samples with different bytes have gone through the fused reader.
C9_Witness ==
    /\ Returned("ReadFIFO_Current")
    /\ req_samples = 2
    /\ MAX30101_SampleCurrentBuffer[0] # MAX30101_SampleCurrentBuffer[1]
    /\ MAX30101_SampleCurrentBuffer[0].red # 0
    /\ MAX30101_SampleCurrentBuffer[1].green # 0

\* C10: MAX30101_ReadFIFO(n) reads, per sample, one burst of 2 bytes per
\* channel of the configured profile, and so moves the sensor's read
\* pointer by exactly n samples.
C10_BurstMatchesProfile ==
    Returned("ReadFIFO") =>
        /\ \A k \in (logAtCall + 1)..Len(busLog) :
             busLog[k].arg = 2 * ChannelCount
        /\ devRd = (rdAtCall + req_samples) % FIFO_DEPTH
        /\ devOff = 0


\* C11: MAX30101_ReadFIFO asked for more samples than the destination
\* holds fails at once: it issues no bus transaction and stores nothing.
C11_OversizedReadRejected ==
    (fn = "ReadFIFO" /\ req_samples > BUFFER_CAPACITY) =>
        /\ fnPc = 0 /\ i = 0
        /\ Len(busLog) = logAtCall
        /\ overrun = {}


\* C12: MAX30101_ReadFIFO_Current asked for 0 samples returns at once: it
\* issues no bus transaction, moves no pointer of the sensor and leaves
\* every entry of the destination as it was when it was called.
C12_EmptyReadDoesNothing ==
    (fn = "ReadFIFO_Current" /\ req_samples = 0) =>
        /\ fnPc = 0 /\ i = 0
        /\ Len(busLog) = logAtCall
        /\ devRd = rdAtCall
        /\ MAX30101_SampleCurrentBuffer = bufAtEntry
        /\ overrun = {}

\* The fused reader was asked for 0 samples after an earlier call had
\* stored a sample and moved the read pointer.
C12_Witness ==
    /\ Returned("ReadFIFO_Current") /\ req_samples = 0
    /\ rdAtCall # 0
    /\ MAX30101_SampleCurrentBuffer[0] # ZeroCurrent


\* ((hi << 8) | lo) x LSB for the three byte pairs of a 6-byte sample, in
\* the order red, IR, green.
CurrentOfBytes(p) ==
    [red |-> Float32TimesLsb(p[1] * 256 + p[2]),
     ir |-> Float32TimesLsb(p[3] * 256 + p[4]),
     green |-> Float32TimesLsb(p[5] * 256 + p[6])]

C14_ExcessLeftOnDevice ==
    (isrPc = "ReadFIFO_Current" /\ available_samples > BUFFER_CAPACITY) =>
        /\ Len(busLog) - logAtCall <= BUFFER_CAPACITY
        /\ (devRd - rdAtCall) % FIFO_DEPTH <= BUFFER_CAPACITY


\* C15: a trigger period that begins with the sensor's write pointer equal
\* to its read pointer (FIFO empty, or full with 32 unread samples) gets 0
\* from the availability query, reads nothing from the data port and
\* leaves the result buffer as it was.
C15_EqualPointersReadNothing ==
    /\ ( /\ isrPc = "GetNumAvailableSamples" /\ fnPc = 0
         /\ devWr = devRd /\ overrun = {} )
       => num_samples = 0
    /\ ( /\ isrPc \in {"ReadFIFO_Current", "LED_Toggle"}
         /\ devWr = rdAtCall /\ overrun = {} )
       => /\ isrPc = "LED_Toggle"
          /\ available_samples = 0
          /\ Len(busLog) = logAtCall + 2
          /\ devRd = rdAtCall
          /\ MAX30101_SampleCurrentBuffer = bufAtEntry

\* The second period found the FIFO full: 32 unread samples behind a read
\* pointer the first period had moved.
C15_Witness ==
    /\ isrPc = "LED_Toggle" /\ ticks = 2
    /\ Unread = FIFO_DEPTH /\ devRd # 0 /\ devWr = devRd
    /\ available_samples = 0
    /\ MAX30101_SampleCurrentBuffer[0] # ZeroCurrent
    /\ MAX30101_SampleCurrentBuffer = bufAtEntry


\* The register writes of main's configuration call.
MainInitSeq == InitMuscleOxSeq(MAIN_LED_POWER)

\* C16: configuration and acquisition never overlap and the handler never
\* overlaps itself.  SysTick is enabled only once main is in its loop, with
\* the writes of MAX30101_InitMuscleOx all issued; the bus log is those
\* writes followed by reads only; the handler runs only with SysTick
\* enabled and a configuration function runs only with the handler idle;
\* and every invocation begun but the one in progress has run to its end
\* (one LED toggle each).
C16_ConfigurationBeforeAcquisition ==
    /\ systickOn =>
         /\ mainPc = "loop"
         /\ Len(busLog) >= Len(MainInitSeq)
    /\ \A k \in 1..Len(busLog) :
         IF k <= Len(MainInitSeq)
         THEN IsWrite(k, MainInitSeq[k][1])
         ELSE IsRead(k) /\ systickOn
    /\ isrPc # "idle" => systickOn
    /\ (fn \in InitFns /\ fnPc # 0) => (isrPc = "idle" /\ ~systickOn)
    /\ led = (ticks - (IF isrPc = "idle" THEN 0 ELSE 1)) % 2

\* The second invocation of the handler is reading the FIFO.
C16_Witness ==
    /\ ticks = 2 /\ isrPc = "ReadFIFO_Current" /\ fnPc = 1
    /\ led = 1 /\ Len(busLog) > Len(MainInitSeq) + 2


\* C17: when either configuration function returns, whatever was read
\* before it, the sensor's FIFO has restarted from empty: the read pointer
\* is 0 at the start of a sample, the write pointer counts the samples
\* appended since it was zeroed, so that the availability computation on
\* the two pointers gives that count (0 until the sensor appends one);
\* and no entry of the result buffer differs from what it was at the call.
C17_ReconfigurationRestartsFifo ==
    (fn \in InitFns /\ fnPc = 0) =>
        /\ devRd = 0 /\ devOff = 0
        /\ devWr = sinceReset
        /\ NumAvailable(devWr, devRd) = sinceReset
        /\ MAX30101_SampleCurrentBuffer = bufAtEntry
        /\ overrun = {}

\* The dual-channel configuration has returned, called after a read that
\* had moved the read pointer and filled entry 0 of the result buffer, and
\* no sample has been appended since the pointers were zeroed.
C17_Witness ==
    /\ Returned("InitSPO2Lite") /\ calls = 3
    /\ rdAtCall # 0 /\ produced > 0
    /\ MAX30101_SampleCurrentBuffer[0] # ZeroCurrent
    /\ devRd = 0 /\ devWr = 0 /\ sinceReset = 0


\* The program of main.c on a bus that may fail, with the processor always
\* executing the next step of a handler invocation that has one.
FaultLiveSpec == FaultSpec /\ WF_vars(HandlerStep)

\* C18: every trigger invocation that has begun toggles the LED once and
\* returns, whatever the availability query returned and whether or not a
\* bus transaction of the invocation failed or never completed: eventually
\* the handler is idle and the LED has toggled once per invocation.
C18_EveryPeriodToggles ==
    [](isrPc # "idle" => <>(isrPc = "idle" /\ led = ticks % 2))


\* C19: for every byte pair the count MAX30101_ConvertSampleToUint16
\* produces for a channel is hi * 256 + lo, lies in 0..65535, and gives
\* back the byte pair (its quotient and remainder by 256), so that two
\* different byte pairs never produce the same count.
C19_CountsExact ==
    Returned("ConvertSampleToUint16") =>
        LET raw == MAX30101_FIFO_Buffer[0]
            out == MAX30101_SampleDataBuffer[0]
            Exact(cnt, hi, lo) ==
                /\ cnt = hi * 256 + lo
                /\ cnt \in 0..65535
                /\ cnt \div 256 = hi /\ cnt % 256 = lo
        IN /\ Exact(out.red, raw[1], raw[2])
           /\ Exact(out.ir, raw[3], raw[4])
           /\ Exact(out.green, raw[5], raw[6])

\* The conversion has returned for the raw sample 80 01 01 80 7F FE.
C19_Witness ==
    /\ Returned("ConvertSampleToUint16")
    /\ MAX30101_FIFO_Buffer[0] = <<128, 1, 1, 128, 127, 254>>
    /\ MAX30101_SampleDataBuffer[0] =
           [red |-> 32769, ir |-> 384, green |-> 32766]


\* C20: the sensor may append samples between the two pointer reads of
\* MAX30101_GetNumAvailableSamples, and still, the FIFO not having
\* overflowed, the value the handler obtains is at most the number of
\* samples appended since the pointers were zeroed and not yet read when
\* the function returns; while the handler then reads that many samples,
\* the samples it has still to read never exceed the unread samples on the
\* sensor, so no read goes past the write pointer.
C20_AvailableNeverOverReports ==
    LET unread == sinceReset - Consumed
    IN (overrun = {} /\ sinceReset < FIFO_DEPTH) =>
        /\ unread >= 0
        /\ unread = (devWr - devRd) % FIFO_DEPTH
        /\ (isrPc = "GetNumAvailableSamples" /\ fnPc = 0) =>
               num_samples <= unread
        /\ (isrPc = "ReadFIFO_Current" /\ fn = "ReadFIFO_Current") =>
               req_samples - i <= unread

\* MAX30101_GetNumAvailableSamples has returned to the handler a non-zero
\* count taken from a write pointer that the sensor has moved since it was
\* read: fewer samples are reported than are unread.
C20_Witness ==
    /\ isrPc = "GetNumAvailableSamples" /\ fnPc = 0
    /\ num_samples > 0
    /\ write_ptr # devWr
    /\ busLog[Len(busLog)].reg = FIFO_READPTR
    /\ busLog[Len(busLog) - 1].data # <<devWr>>
    /\ num_samples < sinceReset - Consumed


\* The successful bursts read from the data port, as positions of the bus
\* log, and the rank of the burst at position k among them.
DataReads ==
    {k \in 1..Len(busLog) : /\ busLog[k].op = "R"
                            /\ busLog[k].reg = FIFO_DATAREG
                            /\ busLog[k].res = "ok"}

DataRank(k) == Cardinality({j \in DataReads : j <= k})

\* The bytes of the n-th sample the sensor has appended (n from 1).
SampleBytes(n) == Patterns[((n - 1) % Len(Patterns)) + 1]

\* C21: over the trigger periods after configuration, the sensor never
\* holding more unread samples than the result buffer has entries and never
\* overflowing, the n-th burst read from the data port delivers the n-th
\* sample appended since the pointers were zeroed (every sample at most
\* once, none skipped, in the order of production) and no burst reads a
\* sample not yet appended; the value the availability query returns is
\* the write pointer it was given minus the samples read, modulo 32; the
\* result buffer's first entries are the conversions of the bursts of the
\* period in their order; and at the end of a period every sample the
\* period found appended has been read.
C21_EverySampleOnceInOrder ==
    LET first == produced - sinceReset
        unread == sinceReset - Consumed
    IN (overrun = {} /\ unread < FIFO_DEPTH) =>
        /\ unread >= 0
        /\ devRd = Consumed % FIFO_DEPTH /\ devWr = sinceReset % FIFO_DEPTH
        /\ \A k \in DataReads :
              busLog[k].data = SampleBytes(first + DataRank(k))
        /\ (isrPc = "GetNumAvailableSamples" /\ fnPc = 0) =>
              /\ busLog[Len(busLog) - 1].reg = FIFO_WRITPTR
              /\ num_samples =
                    (busLog[Len(busLog) - 1].data[1] - Consumed) % FIFO_DEPTH
        /\ (isrPc \in {"ReadFIFO_Current", "LED_Toggle"}
               /\ available_samples > 0) =>
              \A j \in 0..(i - 1) :
                  /\ logAtCall + 1 + j \in DataReads
                  /\ MAX30101_SampleCurrentBuffer[j] =
                        CurrentOfBytes(busLog[logAtCall + 1 + j].data)
        /\ isrPc = "LED_Toggle" =>
              /\ devRd = write_ptr
              /\ available_samples > 0 => i = available_samples

\* A period ends in which the pointers the handler was given had wrapped
\* (write pointer below read pointer): all samples appended, more than the
\* sensor's FIFO holds, have been read, and none behind the result buffer.
C21_Witness ==
    /\ isrPc = "LED_Toggle" /\ available_samples > 0
    /\ write_ptr < read_ptr
    /\ Consumed = sinceReset /\ Consumed > FIFO_DEPTH
    /\ overrun = {}

=============================================================================
